---- MODULE Spec2Model ----
(***************************************************************************)
(* A model of rectools.visuals.metrics_app.MetricsApp: the validators and  *)
(* the merge of MetricsApp.construct, the two memoized data views, the     *)
(* chart builder and the widget controller of display().                   *)
(*                                                                         *)
(* Conventions.  A Python str is a sequence of one-character strings, so   *)
(* that replacing, splitting, concatenating and comparing act on the       *)
(* characters.  A DataFrame is a record [kind, columns, rows]: columns is  *)
(* the sequence of column names and rows the sequence of rows, each a      *)
(* function from the column names to cells.  A cell of the model column is *)
(* a str, a cell of the fold column an integer; a cell of a metric or of a *)
(* metadata column is <<v>> for the value v and <<>> (NaN) when missing.   *)
(* Metric values are integers (the spec's 0.1 .. 0.6 are 1 .. 6, in        *)
(* tenths) and a mean is an exact fraction <<numerator, denominator>> in   *)
(* lowest terms: floating-point rounding is outside the model.             *)
(***************************************************************************)
EXTENDS Integers, Sequences, FiniteSets, TLC

VARIABLES
    pc,               \* "call": construct not yet called; "done": it returned or raised
    models_metrics,   \* the caller's metrics object, as it is now
    models_metadata,  \* the caller's metadata object, as it is now
    given_metrics,    \* the value of the metrics object when construct was called
    given_metadata,   \* the value of the metadata object when construct was called
    raised,           \* the exception the last construct raised, "None" when it returned
    raised_by,        \* the step of construct that raised it ("" when it returned)
    instances,        \* the MetricsApp instances constructed so far, oldest first
    auto_display,     \* the auto_display argument of the call of construct
    fold_cache,       \* the lru_cache of _make_chart_data_fold, least recently used first
    avg_cache,        \* the lru_cache of _make_chart_data_avg, least recently used first
    call,             \* the last call of a data view: its key, its result, how it was served
    first,            \* fold-view key -> the result of the first call with that key
    recency,          \* the fold-view keys called so far, least recently called first
    widgets,          \* the controls each call of display() created, oldest call first:
                      \* their values and visibilities
    fig,              \* self.fig of the displayed instance
    fig_widget,       \* the live chart (go.FigureWidget) of each call of display()
    updated,          \* how the last run of the update procedure ended
    events,           \* the number of control-change events handled so far
    initial_symbols   \* model -> its marker symbol in the initial chart the last display() built

call_vars == <<pc, models_metrics, models_metadata, given_metrics, given_metadata,
               raised, raised_by, instances, auto_display>>
view_vars == <<fold_cache, avg_cache, call, first, recency>>
ui_vars == <<widgets, fig, fig_widget, updated, events, initial_symbols>>
vars == <<call_vars, view_vars, ui_vars>>

----------------------------------------------------------------------------
(* Python values *)

Columns_Model == "model"
Columns_Split == "i_split"

NaN == <<>>

Range(s) == {s[i] : i \in DOMAIN s}

\* ord(c) for the characters the model uses
Ord(c) ==
    CASE c = " " -> 32
      [] c = "," -> 44
      [] c = "0" -> 48
      [] c = "1" -> 49
      [] c = "2" -> 50
      [] c = "3" -> 51
      [] c = "4" -> 52
      [] c = "5" -> 53
      [] c = "6" -> 54
      [] c = "7" -> 55
      [] c = "8" -> 56
      [] c = "9" -> 57
      [] c = "M" -> 77
      [] c = "_" -> 95
      [] c = "a" -> 97
      [] c = "b" -> 98
      [] c = "c" -> 99
      [] c = "d" -> 100
      [] c = "e" -> 101
      [] c = "l" -> 108
      [] c = "n" -> 110
      [] c = "o" -> 111
      [] c = "x" -> 120
      [] c = "y" -> 121

\* s < t for two str (lexicographic on the code points)
RECURSIVE str_lt(_, _)
str_lt(s, t) ==
    IF t = <<>> THEN FALSE
    ELSE IF s = <<>> THEN TRUE
    ELSE IF Head(s) = Head(t) THEN str_lt(Tail(s), Tail(t))
    ELSE Ord(Head(s)) < Ord(Head(t))

\* s.replace(old, new) for one-character old and new
str_replace(s, old, new) == [i \in 1..Len(s) |-> IF s[i] = old THEN new ELSE s[i]]

DecimalDigits == <<"0", "1", "2", "3", "4", "5", "6", "7", "8", "9">>

\* str(n) of an int
RECURSIVE int_to_str(_)
int_to_str(n) ==
    IF n < 0 THEN <<"-">> \o int_to_str(0 - n)
    ELSE IF n < 10 THEN <<DecimalDigits[n + 1]>>
    ELSE int_to_str(n \div 10) \o <<DecimalDigits[(n % 10) + 1]>>

\* Series.astype(str) of the model column, whose cells are str already
astype_str(name) == name

----------------------------------------------------------------------------
(* pandas *)

IsDataFrame(x) == x.kind = "DataFrame"

NoneValue == [kind |-> "None", columns |-> <<>>, rows |-> <<>>]
NotAFrame == [kind |-> "list", columns |-> <<>>, rows |-> <<>>]

DataFrame(columns, rows) == [kind |-> "DataFrame", columns |-> columns, rows |-> rows]

\* df[c] as the sequence of its cells
Column(df, c) == [i \in 1..Len(df.rows) |-> df.rows[i][c]]

\* df[cols]
Project(df, cols) ==
    DataFrame(cols, [i \in 1..Len(df.rows) |-> [c \in Range(cols) |-> df.rows[i][c]]])

\* whether a cell is missing: only metric and metadata cells can be
IsNullCell(c, cell) == IF c \in {Columns_Model, Columns_Split} THEN FALSE ELSE cell = NaN

\* df.isnull().values.any()
AnyNull(df) ==
    \E i \in 1..Len(df.rows) : \E c \in Range(df.columns) : IsNullCell(c, df.rows[i][c])

\* Series.unique() / drop_duplicates(): the distinct values in order of first appearance
RECURSIVE Unique(_)
Unique(s) ==
    IF s = <<>> THEN <<>>
    ELSE LET rest == Unique(SubSeq(s, 1, Len(s) - 1))
             last == s[Len(s)]
         IN  IF last \in Range(rest) THEN rest ELSE Append(rest, last)

\* Series.nunique()
NUnique(s) == Len(Unique(s))

\* sorted(names): insertion of each name before the first greater one
RECURSIVE SortedStr(_)
SortedStr(s) ==
    IF s = <<>> THEN <<>>
    ELSE LET rest == SortedStr(SubSeq(s, 1, Len(s) - 1))
             x == s[Len(s)]
             k == Cardinality({i \in 1..Len(rest) : ~ str_lt(x, rest[i])})
         IN  SubSeq(rest, 1, k) \o <<x>> \o SubSeq(rest, k + 1, Len(rest))

\* df.groupby(Columns.Model).groups.keys(): the group keys, sorted
GroupKeys(df) == SortedStr(Unique(Column(df, Columns_Model)))

\* grouped.get_group(key)
GetGroup(df, key) ==
    DataFrame(df.columns, SelectSeq(df.rows, LAMBDA r : r[Columns_Model] = key))

----------------------------------------------------------------------------
(* MetricsApp: the validators *)

\* validate_models_metrics_base with the missing-value check moved before the column checks
validate_models_metrics_base_NaNFirst(df) ==
    IF ~ IsDataFrame(df) THEN "ValueError"
    ELSE IF AnyNull(df) THEN "ValueError"
    ELSE IF Columns_Model \notin Range(df.columns) THEN "KeyError"
    ELSE IF Len(SelectSeq(df.columns, LAMBDA c : c \notin {Columns_Model, Columns_Split})) < 1
         THEN "KeyError"
    ELSE "None"

validate_models_metrics_base(df) ==
    IF ~ IsDataFrame(df) THEN "ValueError"
    ELSE IF Columns_Model \notin Range(df.columns) THEN "KeyError"
    ELSE IF Len(SelectSeq(df.columns, LAMBDA c : c \notin {Columns_Model, Columns_Split})) < 1
         THEN "KeyError"
    ELSE IF AnyNull(df) THEN "ValueError"
    ELSE "None"

\* FoldsDiffer without the comparison of the fold names: only the amounts are compared
FoldsDiffer_AmountOnly(group, ref_group) ==
    NUnique(Column(group, "i_split")) # NUnique(Column(ref_group, Columns_Split))

\* group["i_split"].nunique() != ref_fold_count or set(...) != ref_fold_names
FoldsDiffer(group, ref_group) ==
    \/ NUnique(Column(group, "i_split")) # NUnique(Column(ref_group, Columns_Split))
    \/ Range(Unique(Column(group, "i_split"))) # Range(Unique(Column(ref_group, Columns_Split)))

validate_models_metrics_split(df) ==
    IF Columns_Split \notin Range(df.columns) THEN "None"
    ELSE LET keys == GroupKeys(df)
         IN  IF keys = <<>> THEN "StopIteration"     \* next(iter(...)) of no group
             ELSE LET ref_group == GetGroup(df, keys[1])
                  IN  IF \E i \in 1..Len(keys) : FoldsDiffer(GetGroup(df, keys[i]), ref_group)
                      THEN "ValueError"
                      ELSE "None"

\* models_metrics[Columns.Model] = models_metrics[Columns.Model].astype(str).str.replace(" ", "_")
NormalizeModelColumn(df) ==
    [df EXCEPT !.rows = [i \in 1..Len(df.rows) |->
        [df.rows[i] EXCEPT ![Columns_Model] = str_replace(astype_str(@), " ", "_")]]]

\* models_metrics[Columns.Model] + models_metrics[Columns.Split].astype(str)
ModelsNamesComb(df) ==
    [i \in 1..Len(df.rows) |->
        df.rows[i][Columns_Model] \o int_to_str(df.rows[i][Columns_Split])]

\* validate_models_metrics_names comparing the number of distinct names with the number
\* of distinct models instead of the number of rows
validate_models_metrics_names_PerModel(df) ==
    LET out == NormalizeModelColumn(df)
    IN  IF Columns_Split \in Range(df.columns)
        THEN [frame |-> out,
              raised |-> IF NUnique(ModelsNamesComb(out)) # NUnique(Column(out, Columns_Model))
                         THEN "ValueError" ELSE "None"]
        ELSE [frame |-> out,
              raised |-> IF NUnique(Column(out, Columns_Model)) # NUnique(Column(out, Columns_Model))
                         THEN "ValueError" ELSE "None"]

\* The validator assigns the model column of the frame it was given, then checks:
\* .frame is that frame after the call, .raised the exception.
validate_models_metrics_names(df) ==
    LET out == NormalizeModelColumn(df)
    IN  IF Columns_Split \in Range(df.columns)
        THEN [frame |-> out,
              raised |-> IF NUnique(ModelsNamesComb(out)) # Len(ModelsNamesComb(out))
                         THEN "ValueError" ELSE "None"]
        ELSE [frame |-> out,
              raised |-> IF NUnique(Column(out, Columns_Model)) # Len(Column(out, Columns_Model))
                         THEN "ValueError" ELSE "None"]

validate_models_metadata(md) ==
    IF ~ IsDataFrame(md) THEN "ValueError"
    ELSE IF Columns_Model \notin Range(md.columns) THEN "KeyError"
    ELSE IF NUnique(Column(md, Columns_Model)) # Len(md.rows) THEN "ValueError"
    ELSE IF \E i \in 1..Len(md.rows) : IsNullCell(Columns_Model, md.rows[i][Columns_Model])
         THEN "ValueError"
    ELSE "None"

----------------------------------------------------------------------------
(* MetricsApp.construct *)

\* the row of the merge for a left row and a matching right row
JoinRow(cols, l, r) ==
    [c \in Range(cols) |-> IF c \in DOMAIN l THEN l[c] ELSE r[c]]

\* the row of the merge for a left row no right row matches: the right columns are missing
JoinRowUnmatched(cols, l) ==
    [c \in Range(cols) |-> IF c \in DOMAIN l THEN l[c] ELSE NaN]

\* left.merge(right, on=Columns.Model, how="left"): the left rows in order, each with
\* the right rows of the same model value, in order
RECURSIVE MergeRows(_, _, _)
MergeRows(cols, lrows, right) ==
    IF lrows = <<>> THEN <<>>
    ELSE LET l == Head(lrows)
             matches == SelectSeq(right.rows, LAMBDA r : r[Columns_Model] = l[Columns_Model])
         IN  (IF matches = <<>> THEN <<JoinRowUnmatched(cols, l)>>
              ELSE [k \in 1..Len(matches) |-> JoinRow(cols, l, matches[k])])
             \o MergeRows(cols, Tail(lrows), right)

\* the name the column c of df has in the merge of df with other: a column other than
\* the key that both tables have gets the suffix of its side ("_x" left, "_y" right)
Suffixed(c, other, suffix) ==
    IF c # Columns_Model /\ c \in Range(other.columns) THEN c \o suffix ELSE c

\* df with its columns named as in the merge with other
SuffixOverlap(df, other, suffix) ==
    DataFrame([k \in 1..Len(df.columns) |-> Suffixed(df.columns[k], other, suffix)],
              [i \in 1..Len(df.rows) |->
                  [n \in {Suffixed(c, other, suffix) : c \in Range(df.columns)} |->
                      df.rows[i][CHOOSE c \in Range(df.columns) :
                                    Suffixed(c, other, suffix) = n]]])

\* the merge of two tables that share the key column only
MergeDisjoint(left, right, cols) == DataFrame(cols, MergeRows(cols, left.rows, right))

\* left.merge(right, on=Columns.Model, how="left")
MergeLeft(left, right) ==
    MergeDisjoint(SuffixOverlap(left, right, "_x"), SuffixOverlap(right, left, "_y"),
                  SuffixOverlap(left, right, "_x").columns
                    \o SelectSeq(SuffixOverlap(right, left, "_y").columns,
                                 LAMBDA c : c # Columns_Model))

\* merged_data[Columns.Model] = merged_data[Columns.Model].str.replace(" ", "_")
ReplaceSpaces(df) ==
    [df EXCEPT !.rows = [i \in 1..Len(df.rows) |->
        [df.rows[i] EXCEPT ![Columns_Model] = str_replace(@, " ", "_")]]]

\* models_metrics[Columns.Model].drop_duplicates().to_frame()
ModelsFrame(df) ==
    LET names == Unique(Column(df, Columns_Model))
    IN  DataFrame(<<Columns_Model>>,
                  [i \in 1..Len(names) |-> [c \in {Columns_Model} |-> names[i]]])

NoApp == [data |-> NoneValue, metric_names |-> <<>>, meta_names |-> <<>>]

\* what a call leaves: the exception and the step that raised it, the caller's
\* metrics object, the instance
Outcome(exc, by, metrics, instance) ==
    [raised |-> exc, by |-> by, metrics |-> metrics, app |-> instance]

\* MetricsApp(data, metric_names, meta_names, ...)
MetricsApp(data, metric_names, meta_names) ==
    [data |-> data, metric_names |-> metric_names, meta_names |-> meta_names]

construct(metrics, metadata_arg) ==
    LET base == validate_models_metrics_base(metrics)
    IN  IF base # "None" THEN Outcome(base, "base", metrics, NoApp)
        ELSE
    LET split == validate_models_metrics_split(metrics)
    IN  IF split # "None" THEN Outcome(split, "split", metrics, NoApp)
        ELSE
    LET names == validate_models_metrics_names(metrics)
        metrics1 == names.frame
    IN  IF names.raised # "None" THEN Outcome(names.raised, "names", metrics1, NoApp)
        ELSE
    LET metadata == IF metadata_arg.kind = "None" THEN ModelsFrame(metrics1) ELSE metadata_arg
        meta == validate_models_metadata(metadata)
    IN  IF meta # "None" THEN Outcome(meta, "metadata", metrics1, NoApp)
        ELSE
    LET merged_data == ReplaceSpaces(MergeLeft(metrics1, metadata))
        metric_names == SelectSeq(metrics1.columns,
                                  LAMBDA c : c \notin {Columns_Split, Columns_Model})
        meta_names == SelectSeq(metadata.columns, LAMBDA c : c # Columns_Model)
    IN  Outcome("None", "", metrics1, MetricsApp(merged_data, metric_names, meta_names))

----------------------------------------------------------------------------
(* functools.lru_cache *)

\* the maxsize of @lru_cache used without arguments
lru_cache_maxsize == 128

\* what a call of a memoized function leaves: the cache, the result, and whether the
\* result came from the cache (the function body did not run)
Served(cache, result, hit) == [cache |-> cache, result |-> result, hit |-> hit]

\* lru_cache_call in which a hit leaves the entry where it is: the cache drops the entry
\* stored first, not the least recently used one
lru_cache_call_Fifo(cache, key, value) ==
    LET at == {i \in 1..Len(cache) : cache[i].key = key}
    IN  IF at # {}
        THEN Served(cache, cache[CHOOSE k \in at : TRUE].value, TRUE)
        ELSE Served((IF Len(cache) >= lru_cache_maxsize THEN Tail(cache) ELSE cache)
                            \o <<[key |-> key, value |-> value]>>,
                    value, FALSE)

\* A call with the key `key` of a function memoized in `cache`, where `value` is what the
\* function body returns: a hit makes the entry the most recently used one; a miss runs
\* the body, stores the result and, in a full cache, drops the least recently used entry.
lru_cache_call(cache, key, value) ==
    LET at == {i \in 1..Len(cache) : cache[i].key = key}
    IN  IF at # {}
        THEN LET i == CHOOSE k \in at : TRUE
             IN  Served(SubSeq(cache, 1, i - 1) \o SubSeq(cache, i + 1, Len(cache))
                            \o <<cache[i]>>,
                        cache[i].value, TRUE)
        ELSE Served((IF Len(cache) >= lru_cache_maxsize THEN Tail(cache) ELSE cache)
                            \o <<[key |-> key, value |-> value]>>,
                    value, FALSE)

----------------------------------------------------------------------------
(* MetricsApp: the data views *)

\* the sorted list of fold ids of the instance, <<>> standing for None
RECURSIVE SortedInt(_)
SortedInt(s) ==
    IF s = <<>> THEN <<>>
    ELSE LET rest == SortedInt(SubSeq(s, 1, Len(s) - 1))
             x == s[Len(s)]
             k == Cardinality({i \in 1..Len(rest) : rest[i] <= x})
         IN  SubSeq(rest, 1, k) \o <<x>> \o SubSeq(rest, k + 1, Len(rest))

HasFolds(self) == Columns_Split \in Range(self.data.columns)

fold_ids(self) ==
    IF HasFolds(self) THEN SortedInt(Unique(Column(self.data, Columns_Split))) ELSE <<>>

\* the body of _make_chart_data_fold
make_chart_data_fold(self, fold_number) ==
    DataFrame(self.data.columns,
              SelectSeq(self.data.rows, LAMBDA r : r[Columns_Split] = fold_number))

RECURSIVE GCD(_, _)
GCD(a, b) == IF b = 0 THEN a ELSE GCD(b, a % b)

\* the fraction n / d in lowest terms (d > 0, n >= 0)
Fraction(n, d) == <<n \div GCD(n, d), d \div GCD(n, d)>>

\* the sum of the values of a sequence of cells
RECURSIVE SumCells(_)
SumCells(cells) == IF cells = <<>> THEN 0 ELSE Head(cells)[1] + SumCells(Tail(cells))

\* Series.mean() of the cells of one group
Mean(cells) == <<Fraction(SumCells(cells), Len(cells))>>

\* df.groupby([Columns.Model], sort=...).mean().reset_index(): one row per model, the
\* models in the order given, each other column the mean of the model's rows
GroupByMean(df, keys) ==
    DataFrame(df.columns,
              [k \in 1..Len(keys) |->
                  [c \in Range(df.columns) |->
                      IF c = Columns_Model THEN keys[k]
                      ELSE Mean(Column(GetGroup(df, keys[k]), c))]])

\* _make_chart_data_avg with the groupby sorting its keys (sort=True, the default)
make_chart_data_avg_Sorted(self) ==
    LET metric_data_columns == <<Columns_Model>> \o self.metric_names
        meta_data_columns == <<Columns_Model>> \o self.meta_names
        frame == Project(self.data, metric_data_columns)
        metrics_data == GroupByMean(frame, GroupKeys(frame))
        meta == Project(self.data, meta_data_columns)
        meta_data == DataFrame(meta.columns, Unique(meta.rows))
    IN  MergeLeft(metrics_data, meta_data)

\* _make_chart_data_avg raises a KeyError: self.data[metric_data_columns] or
\* self.data[meta_data_columns] names a column the merged dataset does not have
make_chart_data_avg_raises(self) ==
    ~ (Range(<<Columns_Model>> \o self.metric_names \o self.meta_names)
         \subseteq Range(self.data.columns))

\* the body of _make_chart_data_avg, when it does not raise
make_chart_data_avg(self) ==
    LET metric_data_columns == <<Columns_Model>> \o self.metric_names
        meta_data_columns == <<Columns_Model>> \o self.meta_names
        frame == Project(self.data, metric_data_columns)
        metrics_data == GroupByMean(frame, Unique(Column(frame, Columns_Model)))
        meta == Project(self.data, meta_data_columns)
        meta_data == DataFrame(meta.columns, Unique(meta.rows))
    IN  MergeLeft(metrics_data, meta_data)

----------------------------------------------------------------------------
(* MetricsApp._create_chart: plotly.express.scatter *)

TOP_CHART_MARGIN == 20
DEFAULT_LEGEND_TITLE == "model name"

\* the symbol and colour sequences plotly.express uses when none is given
symbol_sequence == <<"circle", "diamond", "square", "x", "cross">>
color_discrete_sequence ==
    <<"#636EFA", "#EF553B", "#00CC96", "#AB63FA", "#FFA15A",
      "#19D3F3", "#FF6692", "#B6E880", "#FF97FF", "#FECB52">>

\* the position of the first x in the sequence s (x is in s)
IndexOf(s, x) == CHOOSE i \in 1..Len(s) : s[i] = x /\ \A k \in 1..(i - 1) : s[k] # x

\* u < v for two cells of the column c, a missing cell being less than every value
CellLt(c, u, v) ==
    IF c = Columns_Model THEN str_lt(u, v)
    ELSE IF v = NaN THEN FALSE
    ELSE IF u = NaN THEN TRUE
    ELSE str_lt(u[1], v[1])

\* data.sort_values(by=c, ascending=False): descending, rows with equal cells in their
\* order, missing cells last
RECURSIVE SortDescending(_, _)
SortDescending(rows, c) ==
    IF rows = <<>> THEN <<>>
    ELSE LET rest == SortDescending(SubSeq(rows, 1, Len(rows) - 1), c)
             x == rows[Len(rows)]
             k == Cardinality({i \in 1..Len(rest) : ~ CellLt(c, rest[i][c], x[c])})
         IN  SubSeq(rest, 1, k) \o <<x>> \o SubSeq(rest, k + 1, Len(rest))

\* str(cell) of a cell of the column c: data[color].astype(str)
CellStr(c, cell) ==
    IF c = Columns_Model THEN cell
    ELSE IF cell = NaN THEN <<"n", "a", "n">>
    ELSE cell[1]

\* the name plotly.express gives the series of the colour value and the model: the two
\* joined by ", ", or the value alone when the colour column is the symbol column
TraceName(color, value, model) ==
    IF color = Columns_Model THEN model ELSE value \o <<",", " ">> \o model

\* groups (colour value, model) in the order plotly.express draws them: by the first
\* appearance of the colour value, then by the first appearance of the model
RECURSIVE SortGroups(_, _, _)
SortGroups(groups, values, models) ==
    IF groups = <<>> THEN <<>>
    ELSE LET rest == SortGroups(SubSeq(groups, 1, Len(groups) - 1), values, models)
             x == groups[Len(groups)]
             before(g) ==
                 \/ IndexOf(values, g[1]) < IndexOf(values, x[1])
                 \/ g[1] = x[1] /\ IndexOf(models, g[2]) <= IndexOf(models, x[2])
             k == Cardinality({i \in 1..Len(rest) : before(rest[i])})
         IN  SubSeq(rest, 1, k) \o <<x>> \o SubSeq(rest, k + 1, Len(rest))

Layout(legend_title, margin) == [legend_title |-> legend_title, margin |-> margin]

Figure(traces, layout) == [data |-> traces, layout |-> layout]

\* go.Figure()
EmptyFigure == Figure(<<>>, Layout(<<>>, <<>>))

\* the rows as plotly.express gets them: sorted by the colour column, whose cells are
\* made strings
SortedRows(rows, color) ==
    [i \in 1..Len(rows) |-> [SortDescending(rows, color)[i] EXCEPT ![color] = CellStr(color, @)]]

\* the (colour value, model) groups of the rows in the order they are drawn
ScatterGroups(rows, color) ==
    SortGroups(Unique([i \in 1..Len(rows) |-> <<rows[i][color], rows[i][Columns_Model]>>]),
               Unique([i \in 1..Len(rows) |-> rows[i][color]]),
               Unique([i \in 1..Len(rows) |-> rows[i][Columns_Model]]))

\* the rows of the group (value, model)
GroupRows(rows, color, value, model) ==
    SelectSeq(rows, LAMBDA r : r[color] = value /\ r[Columns_Model] = model)

\* the series of a group: its points, its name, the position-th colour and the shape-th
\* symbol of the sequences
Trace(points, metric_x, metric_y, name, position, shape) ==
    [name |-> name,
     legendgroup |-> name,
     x |-> [i \in 1..Len(points) |-> points[i][metric_x]],
     y |-> [i \in 1..Len(points) |-> points[i][metric_y]],
     color |-> color_discrete_sequence[((position - 1) % Len(color_discrete_sequence)) + 1],
     symbol |-> symbol_sequence[((shape - 1) % Len(symbol_sequence)) + 1]]

\* px.scatter(data, x=metric_x, y=metric_y, color=color, symbol=Columns.Model): one
\* series per group, each colour value given the next colour and each model the next
\* symbol as the series are drawn
Scatter(rows, groups, metric_x, metric_y, color) ==
    [g \in 1..Len(groups) |->
        Trace(GroupRows(rows, color, groups[g][1], groups[g][2]), metric_x, metric_y,
              TraceName(color, groups[g][1], groups[g][2]),
              IndexOf(Unique([i \in 1..Len(rows) |-> rows[i][color]]), groups[g][1]),
              IndexOf(Unique([k \in 1..Len(groups) |-> groups[k][2]]), groups[g][2]))]

\* px.scatter of the sorted rows
ScatterSorted(rows, metric_x, metric_y, color) ==
    Scatter(rows, ScatterGroups(rows, color), metric_x, metric_y, color)

\* self._create_chart(data, metric_x, metric_y, color, legend_title)
create_chart(data, metric_x, metric_y, color, legend_title) ==
    Figure(ScatterSorted(SortedRows(data.rows, color), metric_x, metric_y, color),
           Layout(legend_title, <<TOP_CHART_MARGIN>>))

----------------------------------------------------------------------------
(* MetricsApp: the widget controller *)

HasSpace(name) == \E i \in 1..Len(name) : name[i] = " "

\* name.split(" ", 1)[1] of a name with a space: the text after the first space
AfterFirstSpace(name) ==
    LET i == CHOOSE k \in 1..Len(name) : name[k] = " " /\ \A j \in 1..(k - 1) : name[j] # " "
    IN  SubSeq(name, i + 1, Len(name))

\* name.split(" ", 1)[-1]
SplitLast(name) == IF HasSpace(name) THEN AfterFirstSpace(name) ELSE name

\* {trace.name.split(" ", 1)[-1]: trace.marker.symbol for trace in traces}
TraceName2Symbol(traces) ==
    [key \in {SplitLast(traces[k].name) : k \in 1..Len(traces)} |->
        LET last == CHOOSE k \in 1..Len(traces) :
                       /\ SplitLast(traces[k].name) = key
                       /\ \A j \in (k + 1)..Len(traces) : SplitLast(traces[j].name) # key
        IN  traces[last].symbol]

\* {trace.name.split(" ", 1)[-1]: idx for idx, trace in enumerate(traces)}, the positions
\* counted from 1
TraceName2Idx(traces) ==
    [key \in {SplitLast(traces[k].name) : k \in 1..Len(traces)} |->
        CHOOSE k \in 1..Len(traces) :
            /\ SplitLast(traces[k].name) = key
            /\ \A j \in (k + 1)..Len(traces) : SplitLast(traces[j].name) # key]

\* how a run ends: the exception ("None" when it completed) and the step that raised it
Ended(error, at) == [error |-> error, at |-> at]

\* for trace in self.fig.data: trace.marker.symbol = trace_name2symbol[trace_name]
\* The series before the first one whose key is missing have their symbol set.
PatchSymbols(traces, name2symbol) ==
    LET missing == {k \in 1..Len(traces) : SplitLast(traces[k].name) \notin DOMAIN name2symbol}
        stop == IF missing = {} THEN Len(traces) + 1
                ELSE CHOOSE k \in missing : \A j \in missing : k <= j
    IN  [traces |-> [k \in 1..Len(traces) |->
                        IF k < stop
                        THEN [traces[k] EXCEPT !.symbol = name2symbol[SplitLast(traces[k].name)]]
                        ELSE traces[k]],
         ended |-> IF missing = {} THEN Ended("None", "") ELSE Ended("KeyError", "symbol")]

\* the loop inside fig_widget.batch_update(), from the series number k on
RECURSIVE UpdateTraces(_, _, _, _, _)
UpdateTraces(live, traces, k, name2idx, use_meta) ==
    IF k > Len(traces) THEN [traces |-> live, ended |-> Ended("None", "")]
    ELSE IF use_meta /\ ~ HasSpace(traces[k].name)
         THEN [traces |-> live, ended |-> Ended("IndexError", "index")]
    ELSE LET trace_name == IF use_meta THEN AfterFirstSpace(traces[k].name) ELSE traces[k].name
         IN  IF trace_name \notin DOMAIN name2idx
             THEN [traces |-> live, ended |-> Ended("KeyError", "index")]
             ELSE IF name2idx[trace_name] > Len(live)
             THEN [traces |-> live, ended |-> Ended("IndexError", "index")]
             ELSE UpdateTraces([live EXCEPT ![name2idx[trace_name]] =
                                   [@ EXCEPT !.x = traces[k].x,
                                             !.y = traces[k].y,
                                             !.color = traces[k].color,
                                             !.symbol = traces[k].symbol,
                                             !.name = traces[k].name,
                                             !.legendgroup = traces[k].legendgroup]],
                               traces, k + 1, name2idx, use_meta)

\* self._create_chart_data(use_avg, fold_i): the view, the memoized call that served it
\* (none when a fold view is requested of data without a fold column, which raises; an
\* average view that raises is not memoized), and the caches after it
create_chart_data(self, i, w, fcache, acache) ==
    IF w.use_avg /\ make_chart_data_avg_raises(self)
    THEN [data |-> NoneValue, fn |-> "avg", key |-> <<i>>, hit |-> FALSE,
          fold_cache |-> fcache, avg_cache |-> acache, ended |-> Ended("KeyError", "avg")]
    ELSE IF w.use_avg
    THEN LET served == lru_cache_call(acache, <<i>>, make_chart_data_avg(self))
         IN  [data |-> served.result, fn |-> "avg", key |-> <<i>>, hit |-> served.hit,
              fold_cache |-> fcache, avg_cache |-> served.cache, ended |-> Ended("None", "")]
    ELSE IF ~ HasFolds(self)
    THEN [data |-> NoneValue, fn |-> "", key |-> <<>>, hit |-> FALSE,
          fold_cache |-> fcache, avg_cache |-> acache, ended |-> Ended("KeyError", "fold")]
    ELSE LET served == lru_cache_call(fcache, <<i, w.fold_i>>,
                                      make_chart_data_fold(self, w.fold_i))
         IN  [data |-> served.result, fn |-> "fold", key |-> <<i, w.fold_i>>,
              hit |-> served.hit, fold_cache |-> served.cache, avg_cache |-> acache,
              ended |-> Ended("None", "")]

\* the legend title of the chart
LegendTitle(w) ==
    IF w.use_meta THEN <<w.meta_feature, DEFAULT_LEGEND_TITLE>> ELSE <<DEFAULT_LEGEND_TITLE>>

\* color_clmn
ColorColumn(w) == IF w.use_meta THEN w.meta_feature ELSE Columns_Model

\* what a run of _update_chart leaves: self.fig, the live chart, the data-view call it
\* made, and how it ended
UpdateResult(new_fig, live, chart, ended) ==
    [fig |-> new_fig, fig_widget |-> live, chart |-> chart, ended |-> ended]

\* _update_chart from the batch update on: the layout of the live chart is updated and
\* the margin of self.fig cleared when every series was copied
update_chart_widget(chart, new_fig, live, batch) ==
    IF batch.ended.error # "None"
    THEN UpdateResult(new_fig, Figure(batch.traces, live.layout), chart, batch.ended)
    ELSE UpdateResult(Figure(new_fig.data, Layout(new_fig.layout.legend_title, <<>>)),
                      Figure(batch.traces, new_fig.layout), chart, Ended("None", ""))

\* _update_chart from the end of the symbol loop on
update_chart_patched(chart, w, live, layout, patched) ==
    IF patched.ended.error # "None"
    THEN UpdateResult(Figure(patched.traces, layout), live, chart, patched.ended)
    ELSE update_chart_widget(chart, Figure(patched.traces, layout), live,
                             UpdateTraces(live.data, patched.traces, 1,
                                          TraceName2Idx(patched.traces), w.use_meta))

\* _update_chart from the assignment of self.fig on
update_chart_fig(chart, w, live, trace_name2symbol, new_fig) ==
    update_chart_patched(chart, w, live, new_fig.layout,
                         PatchSymbols(new_fig.data, trace_name2symbol))

\* _update_chart once the data view chart is made
update_chart_data(chart, w, old_fig, live) ==
    IF chart.ended.error # "None" THEN UpdateResult(old_fig, live, chart, chart.ended)
    ELSE IF ColorColumn(w) \notin Range(chart.data.columns)
    THEN UpdateResult(old_fig, live, chart, Ended("KeyError", "color"))
    ELSE update_chart_fig(chart, w, live, TraceName2Symbol(old_fig.data),
                          create_chart(chart.data, w.metric_x, w.metric_y,
                                       ColorColumn(w), LegendTitle(w)))

\* self._update_chart(fig_widget, ...) of the instance self, the i-th constructed,
\* self.fig being old_fig and the live chart live
update_chart(self, i, w, old_fig, live, fcache, acache) ==
    update_chart_data(create_chart_data(self, i, w, fcache, acache), w, old_fig, live)

\* self._update_fold_visibility, self._update_meta_visibility
update_visibility(w) ==
    [w EXCEPT !.fold_visibility = IF w.use_avg THEN "hidden" ELSE "visible",
              !.meta_visibility = IF ~ w.use_meta THEN "hidden" ELSE "visible"]

\* the value of the metadata dropdown of an instance without metadata columns (None)
NoFeature == ""

\* the controls display() creates for the instance
NewWidgets(self) ==
    [metric_x |-> self.metric_names[1],
     metric_y |-> self.metric_names[Len(self.metric_names)],
     use_avg |-> TRUE,
     fold_i |-> IF HasFolds(self) THEN fold_ids(self)[1] ELSE -1,
     use_meta |-> FALSE,
     meta_feature |-> IF self.meta_names # <<>> THEN self.meta_names[1] ELSE NoFeature,
     fold_visibility |-> "visible",
     meta_visibility |-> "visible"]

\* the controls display() puts in the tabs: the fold controls when the instance has
\* folds, the metadata controls when it has metadata columns
FoldControlsShown(self) == fold_ids(self) # <<>>
MetaControlsShown(self) == self.meta_names # <<>>

----------------------------------------------------------------------------
(* The inputs of the validation runs *)

MaxRows == 3

ModelNames == {<<"a">>, <<"a", "1">>, <<"a", " ", "b">>, <<"a", "_", "b">>}
FoldIds == {1, 11}
MetricCells == {<<1>>, NaN}

\* the rows over the columns cols with the given model names, fold ids and metric cells
RowsOver(cols, names, folds, cells) ==
    {[c \in Range(cols) |-> CASE c = Columns_Model -> n
                              [] c = Columns_Split -> f
                              [] OTHER -> v] : n \in names, f \in folds, v \in cells}

\* the columns of the metrics tables of the validation runs: every subset of a model
\* column, a fold column and one metric column, but the empty one
ColumnChoices ==
    {<<Columns_Model, Columns_Split, "prec@10">>, <<Columns_Model, "prec@10">>,
     <<Columns_Model, Columns_Split>>, <<Columns_Split, "prec@10">>,
     <<Columns_Model>>, <<Columns_Split>>, <<"prec@10">>}

----------------------------------------------------------------------------
(* The state machine *)

\* no data view was called yet
NoCall == [fn |-> "", key |-> <<>>, result |-> NoneValue, raised |-> "None",
           hit |-> FALSE, again |-> FALSE, others |-> 0]

\* display() was not called yet
NoWidgets == <<>>

InitCall(metrics, metadata, auto) ==
    /\ pc = "call"
    /\ models_metrics = metrics
    /\ models_metadata = metadata
    /\ given_metrics = metrics
    /\ given_metadata = metadata
    /\ auto_display = auto
    /\ raised = "None"
    /\ raised_by = ""
    /\ instances = <<>>
    /\ fold_cache = <<>>
    /\ avg_cache = <<>>
    /\ call = NoCall
    /\ first = <<>>
    /\ recency = <<>>
    /\ widgets = NoWidgets
    /\ fig = EmptyFigure
    /\ fig_widget = <<>>
    /\ updated = Ended("None", "")
    /\ events = 0
    /\ initial_symbols = <<>>

\* the number of distinct other fold-view keys called since the last call with key
OthersSince(key) ==
    LET at == {k \in 1..Len(recency) : recency[k] = key}
    IN  IF at = {} THEN 0 ELSE Len(recency) - (CHOOSE k \in at : TRUE)

\* the memoized call chart (of create_chart_data) is recorded
Recorded(chart) ==
    IF chart.fn = "fold"
    THEN /\ call' = [fn |-> "fold", key |-> chart.key, result |-> chart.data,
                     raised |-> "None", hit |-> chart.hit, again |-> chart.key \in DOMAIN first,
                     others |-> OthersSince(chart.key)]
         /\ first' = IF chart.key \in DOMAIN first THEN first
                     ELSE first @@ (chart.key :> chart.data)
         /\ recency' = SelectSeq(recency, LAMBDA k : k # chart.key) \o <<chart.key>>
    ELSE IF chart.fn = "avg"
    THEN /\ call' = [fn |-> "avg", key |-> chart.key, result |-> chart.data,
                     raised |-> chart.ended.error, hit |-> chart.hit,
                     again |-> FALSE, others |-> 0]
         /\ UNCHANGED <<first, recency>>
    ELSE UNCHANGED <<call, first, recency>>

\* a run of _update_chart has left run: self.fig, the caches and the outcome
Ran(run) ==
    /\ fig' = run.fig
    /\ fold_cache' = run.chart.fold_cache
    /\ avg_cache' = run.chart.avg_cache
    /\ updated' = run.ended
    /\ Recorded(run.chart)

\* display() once its _update_chart has left run: one more set of controls and one
\* more live chart exist, next to those of the earlier calls
Displayed(controls, run) ==
    /\ Ran(run)
    /\ widgets' = Append(widgets, controls)
    /\ fig_widget' = Append(fig_widget, run.fig_widget)

\* display() from the initial chart on: the live chart is a copy of it, the two
\* visibilities are set and the chart is updated
DisplayChart(self, i, controls, chart, initial) ==
    /\ initial_symbols' = [name \in {initial.data[k].name : k \in 1..Len(initial.data)} |->
                              TraceName2Symbol(initial.data)[name]]
    /\ UNCHANGED events
    /\ Displayed(update_visibility(controls),
                 update_chart(self, i, update_visibility(controls), initial, initial,
                              chart.fold_cache, chart.avg_cache))

\* display() from the data view of the initial chart on: when the view raised, display()
\* is left before self.fig is assigned and before a live chart or an observer exists
DisplayData(self, i, controls, chart) ==
    IF chart.ended.error # "None"
    THEN /\ Recorded(chart)
         /\ UNCHANGED <<fold_cache, avg_cache, ui_vars>>
    ELSE DisplayChart(self, i, controls, chart,
                      create_chart(chart.data, controls.metric_x, controls.metric_y,
                                   Columns_Model, LegendTitle(controls)))

\* the exception self.display() has raised: that of the data view of the initial chart,
\* or that of the _update_chart that ends display()
display_raised(self) ==
    IF make_chart_data_avg_raises(self) THEN "KeyError" ELSE updated'.error

\* self.display() of the instance self, the i-th constructed
display(self, i) ==
    DisplayData(self, i, NewWidgets(self),
                create_chart_data(self, i, NewWidgets(self), fold_cache, avg_cache))

\* MetricsApp.construct(models_metrics, models_metadata, auto_display=auto_display):
\* once the tables are validated and merged, __init__ calls display() when auto_display
\* is set, and an exception of display() leaves construct
Construct ==
    /\ pc = "call"
    /\ LET out == construct(models_metrics, models_metadata)
       IN  /\ models_metrics' = out.metrics
           /\ IF out.raised = "None" /\ auto_display
              THEN /\ display(out.app, Len(instances) + 1)
                   /\ raised' = display_raised(out.app)
                   /\ raised_by' = IF display_raised(out.app) = "None" THEN "" ELSE "display"
                   /\ instances' = IF display_raised(out.app) = "None"
                                   THEN Append(instances, out.app) ELSE instances
              ELSE /\ raised' = out.raised
                   /\ raised_by' = out.by
                   /\ instances' = IF out.raised = "None" THEN Append(instances, out.app)
                                   ELSE instances
                   /\ UNCHANGED <<view_vars, ui_vars>>
    /\ pc' = "done"
    /\ UNCHANGED <<models_metadata, given_metrics, given_metadata, auto_display>>

\* self._make_chart_data_fold(fold_number) on the instance number i
MakeChartDataFold(i, fold_number) ==
    /\ pc = "done"
    /\ i \in 1..Len(instances)
    /\ HasFolds(instances[i])
    /\ LET key == <<i, fold_number>>
           served == lru_cache_call(fold_cache, key,
                                    make_chart_data_fold(instances[i], fold_number))
       IN  /\ fold_cache' = served.cache
           /\ call' = [fn |-> "fold", key |-> key, result |-> served.result,
                       raised |-> "None", hit |-> served.hit, again |-> key \in DOMAIN first,
                       others |-> OthersSince(key)]
           /\ first' = IF key \in DOMAIN first THEN first ELSE first @@ (key :> served.result)
           /\ recency' = SelectSeq(recency, LAMBDA k : k # key) \o <<key>>
    /\ UNCHANGED <<call_vars, avg_cache, ui_vars>>

\* self._make_chart_data_avg() on the instance number i
MakeChartDataAvg(i) ==
    /\ pc = "done"
    /\ i \in 1..Len(instances)
    /\ IF make_chart_data_avg_raises(instances[i])
       THEN /\ call' = [fn |-> "avg", key |-> <<i>>, result |-> NoneValue,
                        raised |-> "KeyError", hit |-> FALSE, again |-> FALSE, others |-> 0]
            /\ UNCHANGED avg_cache
       ELSE LET key == <<i>>
                served == lru_cache_call(avg_cache, key, make_chart_data_avg(instances[i]))
            IN  /\ avg_cache' = served.cache
                /\ call' = [fn |-> "avg", key |-> key, result |-> served.result,
                            raised |-> "None", hit |-> served.hit, again |-> FALSE,
                            others |-> 0]
    /\ UNCHANGED <<call_vars, fold_cache, first, recency, ui_vars>>

\* construct is about to be called with a metrics object of the validation runs: a
\* value that is no DataFrame, or a table of at most MaxRows rows
Init ==
    \/ \E auto \in BOOLEAN : InitCall(NotAFrame, NoneValue, auto)
    \/ \E cols \in ColumnChoices : \E k \in 0..MaxRows :
         \E rows \in [1..k -> RowsOver(cols, ModelNames, FoldIds, MetricCells)] :
            \E auto \in BOOLEAN : InitCall(DataFrame(cols, rows), NoneValue, auto)

Next == Construct

Spec == Init /\ [][Next]_vars

\* the instance the last construct returned
app == instances[Len(instances)]

----------------------------------------------------------------------------
(* Properties of the validators *)

HasColumn(df, c) == c \in Range(df.columns)

\* the fold ids of the rows of df whose model is name
FoldSetOf(df, name) ==
    {df.rows[i][Columns_Split] : i \in {k \in 1..Len(df.rows) : df.rows[k][Columns_Model] = name}}

SameFoldSets(df) ==
    \A i, j \in 1..Len(df.rows) :
        FoldSetOf(df, df.rows[i][Columns_Model]) = FoldSetOf(df, df.rows[j][Columns_Model])

HasMetricColumn(df) == \E c \in Range(df.columns) : c \notin {Columns_Model, Columns_Split}

\* two rows with the same (model, fold), or the same model when there is no fold column
HasDuplicateKey(df) ==
    \E i, j \in 1..Len(df.rows) :
        /\ i < j
        /\ df.rows[i][Columns_Model] = df.rows[j][Columns_Model]
        /\ HasColumn(df, Columns_Split) => df.rows[i][Columns_Split] = df.rows[j][Columns_Split]

\* C1: a metrics table with a fold column in which two models have different sets of
\* fold ids never passes construct, and once the schema checks (a model column, a
\* metric column) let it through it is rejected with a ValueError, raised by
\* _validate_models_metrics_split unless a missing value was found first; so every
\* table that passes has the same set of fold ids for all its models.
C1_FoldSetsConsistent ==
    (/\ pc = "done"
     /\ IsDataFrame(given_metrics)
     /\ HasColumn(given_metrics, Columns_Model)
     /\ HasColumn(given_metrics, Columns_Split))
    => /\ raised = "None" => SameFoldSets(given_metrics)
       /\ (~ SameFoldSets(given_metrics) /\ HasMetricColumn(given_metrics))
            => /\ raised = "ValueError"
               /\ raised_by \in {"base", "split"}
               /\ ~ AnyNull(given_metrics) => raised_by = "split"

\* two models with as many fold ids each, but different ones, rejected by the fold check
C1_Witness ==
    /\ pc = "done"
    /\ raised = "ValueError"
    /\ raised_by = "split"
    /\ HasColumn(given_metrics, Columns_Model)
    /\ ~ SameFoldSets(given_metrics)
    /\ \A i, j \in 1..Len(given_metrics.rows) :
         Cardinality(FoldSetOf(given_metrics, given_metrics.rows[i][Columns_Model]))
           = Cardinality(FoldSetOf(given_metrics, given_metrics.rows[j][Columns_Model]))

\* C2: a metrics table in which two rows carry the same (model, fold) pair, or the same
\* model when it has no fold column, never passes construct; when the earlier checks
\* let it through, _validate_models_metrics_names raises a ValueError.
C2_DuplicatesRejected ==
    (/\ pc = "done"
     /\ IsDataFrame(given_metrics)
     /\ HasColumn(given_metrics, Columns_Model)
     /\ HasDuplicateKey(given_metrics))
    => /\ raised # "None"
       /\ raised_by \notin {"base", "split"} => (raised_by = "names" /\ raised = "ValueError")

\* a table with a duplicate that passes the schema, missing-value and fold checks
C2_Witness ==
    /\ pc = "done"
    /\ raised_by = "names"
    /\ raised = "ValueError"
    /\ HasDuplicateKey(given_metrics)

\* C3: for an input that is a table, construct raises KeyError when the model column is
\* absent and KeyError when no column besides the model and fold columns exists,
\* whatever else is wrong with the table.
C3_SchemaErrorsFirst ==
    (pc = "done" /\ IsDataFrame(given_metrics))
    => /\ ~ HasColumn(given_metrics, Columns_Model) => raised = "KeyError"
       /\ ~ HasMetricColumn(given_metrics) => raised = "KeyError"

\* a table without a metric column that also has a duplicate and inconsistent folds
C3_Witness ==
    /\ pc = "done"
    /\ raised = "KeyError"
    /\ HasColumn(given_metrics, Columns_Model)
    /\ HasColumn(given_metrics, Columns_Split)
    /\ ~ HasMetricColumn(given_metrics)
    /\ HasDuplicateKey(given_metrics)
    /\ ~ SameFoldSets(given_metrics)

----------------------------------------------------------------------------
(* The merge of the metrics with the metadata *)

MaxJoinRows == 2

JoinNames == {<<"a", " ", "b">>, <<"a", "_", "b">>, <<"b">>}
MetaCells == {<<<<"x">>>>, <<<<"y">>>>}

JoinMetricsColumns ==
    {<<Columns_Model, Columns_Split, "prec@10">>, <<Columns_Model, "prec@10">>}
\* the columns of the metadata tables: one metadata column, one named as the metric
\* column of the metrics table, and none for the model
JoinMetadataColumns ==
    {<<Columns_Model, "factors">>, <<Columns_Model, "prec@10">>, <<"factors">>}

\* construct is about to be called with a metrics table without missing values and with
\* no metadata, a value that is no DataFrame, or a metadata table
InitJoin ==
    \E mcols \in JoinMetricsColumns : \E k \in 0..MaxJoinRows :
      \E mrows \in [1..k -> RowsOver(mcols, JoinNames, FoldIds, {<<1>>})] :
        \/ \E none \in {NoneValue, NotAFrame} : \E auto \in BOOLEAN :
               InitCall(DataFrame(mcols, mrows), none, auto)
        \/ \E dcols \in JoinMetadataColumns : \E n \in 0..MaxJoinRows :
             \E drows \in [1..n -> RowsOver(dcols, JoinNames, FoldIds, MetaCells)] :
                \E auto \in BOOLEAN :
                   InitCall(DataFrame(mcols, mrows), DataFrame(dcols, drows), auto)

SpecJoin == InitJoin /\ [][Next]_vars

\* C4: (the claim) after a successful construct with a metadata table, every metrics row
\* whose model name appears in the metadata table holds that model's metadata values in
\* the merged dataset.
C4_MetadataJoined ==
    (pc = "done" /\ raised = "None" /\ IsDataFrame(given_metadata))
    => \A i \in 1..Len(given_metrics.rows) : \A j \in 1..Len(given_metadata.rows) :
         given_metrics.rows[i][Columns_Model] = given_metadata.rows[j][Columns_Model]
         => \A c \in Range(app.meta_names) :
               /\ c \in Range(app.data.columns)
               /\ app.data.rows[i][c] = given_metadata.rows[j][c]

\* C5: (the claim) when construct has returned or raised, the caller's metrics table and
\* metadata table hold the values they held when it was called.
C5_InputsUnchanged ==
    pc = "done" => (models_metrics = given_metrics /\ models_metadata = given_metadata)

----------------------------------------------------------------------------
(* The average view *)

MaxAvgRows == 4

AvgNames == {<<"a", " ", "b">>, <<"b">>}
AvgCells == {<<1>>, <<2>>}

\* the metrics table of the tests (DF_METRICS), the values in tenths
DF_METRICS ==
    LET Model1 == <<"M", "o", "d", "e", "l", "1">>
        Model2 == <<"M", "o", "d", "e", "l", "2">>
        row(name, fold, v) ==
            (Columns_Model :> name) @@ (Columns_Split :> fold) @@ ("prec@10" :> <<v>>)
                @@ ("recall" :> <<v>>)
    IN  DataFrame(<<Columns_Model, Columns_Split, "prec@10", "recall">>,
                  <<row(Model1, 0, 1), row(Model2, 0, 2), row(Model1, 1, 3),
                    row(Model2, 1, 4), row(Model1, 2, 5), row(Model2, 2, 6)>>)

\* a metadata row
MetaRow(name, v) == (Columns_Model :> name) @@ ("factors" :> <<v>>)

\* no metadata, and metadata tables for the models a_b and b: different values, equal
\* values, one model only, one keyed by the name with the space, and one with a column
\* named as the metric column of the metrics table
AvgMetadata ==
    {NoneValue,
     DataFrame(<<Columns_Model, "factors">>,
               <<MetaRow(<<"a", "_", "b">>, <<"x">>), MetaRow(<<"b">>, <<"y">>)>>),
     DataFrame(<<Columns_Model, "factors">>,
               <<MetaRow(<<"b">>, <<"x">>), MetaRow(<<"a", "_", "b">>, <<"x">>)>>),
     DataFrame(<<Columns_Model, "factors">>, <<MetaRow(<<"b">>, <<"y">>)>>),
     DataFrame(<<Columns_Model, "factors">>,
               <<MetaRow(<<"a", " ", "b">>, <<"x">>), MetaRow(<<"b">>, <<"y">>)>>),
     DataFrame(<<Columns_Model, "prec@10">>,
               <<(Columns_Model :> <<"b">>) @@ ("prec@10" :> <<<<"x">>>>)>>)}

\* a metadata table with a column named as the fold column
SplitMetadata ==
    DataFrame(<<Columns_Model, Columns_Split>>,
              <<(Columns_Model :> <<"b">>) @@ (Columns_Split :> 1)>>)

InitAvg ==
    \/ \E auto \in BOOLEAN : InitCall(DF_METRICS, NoneValue, auto)
    \/ \E mcols \in JoinMetricsColumns : \E k \in 1..MaxAvgRows :
         \E mrows \in [1..k -> RowsOver(mcols, AvgNames, FoldIds, AvgCells)] :
           \E metadata \in AvgMetadata : \E auto \in BOOLEAN :
               InitCall(DataFrame(mcols, mrows), metadata, auto)
    \/ \E k \in 1..2 :
         \E mrows \in [1..k -> RowsOver(<<Columns_Model, Columns_Split, "prec@10">>,
                                        AvgNames, FoldIds, AvgCells)] :
           \E auto \in BOOLEAN :
               InitCall(DataFrame(<<Columns_Model, Columns_Split, "prec@10">>, mrows),
                        SplitMetadata, auto)

\* construct, then the average view of the instance, any number of times
NextAvg ==
    \/ Construct
    \/ MakeChartDataAvg(1)

SpecAvg == InitAvg /\ [][NextAvg]_vars

\* the rows of the merged dataset of the model name
RowsOfModel(df, name) == {i \in 1..Len(df.rows) : df.rows[i][Columns_Model] = name}

\* the sum of the metric c over the rows in the set S of the merged dataset
RECURSIVE SumOver(_, _, _)
SumOver(df, c, S) ==
    IF S = {} THEN 0
    ELSE LET i == CHOOSE k \in S : TRUE IN df.rows[i][c][1] + SumOver(df, c, S \ {i})

\* the first row of the merged dataset with the model name
FirstRowOf(df, name) == CHOOSE i \in RowsOfModel(df, name) : \A k \in RowsOfModel(df, name) : i <= k

\* C6: (the claim) the average view of an instance construct returned is computed (the
\* call does not raise) and has exactly one row per distinct model of the
\* merged dataset, in the order of the models' first appearance; each metric column holds
\* the arithmetic mean of the model's values over all its rows (as a fraction n/d:
\* n * rows = d * sum) and each metadata column the value the merged dataset holds for
\* that model; DF_METRICS gives 0.3 for Model1 and 0.4 for Model2.
C6_AverageView ==
    (pc = "done" /\ call.fn = "avg" /\ call.key[1] \in 1..Len(instances))
    => LET data == instances[call.key[1]].data
           view == call.result
           n == Len(view.rows)
       IN  /\ call.raised = "None"
           /\ {view.rows[p][Columns_Model] : p \in 1..n} = Range(Column(data, Columns_Model))
           /\ n = Cardinality(Range(Column(data, Columns_Model)))
           /\ \A p, q \in 1..n :
                p < q => FirstRowOf(data, view.rows[p][Columns_Model])
                            < FirstRowOf(data, view.rows[q][Columns_Model])
           /\ \A p \in 1..n :
                LET S == RowsOfModel(data, view.rows[p][Columns_Model])
                IN  /\ \A c \in Range(instances[call.key[1]].metric_names) :
                          /\ view.rows[p][c][1][2] > 0
                          /\ view.rows[p][c][1][1] * Cardinality(S)
                               = view.rows[p][c][1][2] * SumOver(data, c, S)
                    /\ \A c \in Range(instances[call.key[1]].meta_names) :
                          \A i \in S : view.rows[p][c] = data.rows[i][c]
           /\ given_metrics = DF_METRICS
                => /\ n = 2
                   /\ view.rows[1]["prec@10"] = <<<<3, 1>>>>
                   /\ view.rows[2]["prec@10"] = <<<<4, 1>>>>

\* the average view of two models with two folds each and different metadata values,
\* the model first in the table being the greater name
C6_Witness ==
    /\ pc = "done"
    /\ call.fn = "avg"
    /\ call.raised = "None"
    /\ Len(call.result.rows) = 2
    /\ Len(app.data.rows) = 4
    /\ app.meta_names # <<>>
    /\ call.result.rows[1]["factors"] # NaN
    /\ call.result.rows[2]["factors"] # NaN
    /\ call.result.rows[1]["factors"] # call.result.rows[2]["factors"]
    /\ str_lt(call.result.rows[2][Columns_Model], call.result.rows[1][Columns_Model])
    /\ call.result.rows[1]["prec@10"] = <<<<3, 2>>>>

----------------------------------------------------------------------------
(* The fold views of many instances *)

MaxApps == 66

\* the metrics table the instance number i is constructed from: one model with the
\* folds 1 and 11, the model and the values alternating from one instance to the next
CacheInput(i) ==
    LET name == IF i % 2 = 1 THEN <<"a">> ELSE <<"b">>
        row(fold, v) ==
            (Columns_Model :> name) @@ (Columns_Split :> fold) @@ ("prec@10" :> <<v>>)
    IN  DataFrame(<<Columns_Model, Columns_Split, "prec@10">>,
                  <<row(1, 1 + (i % 2)), row(11, 2 - (i % 2))>>)

\* the key that is called again and again
RevisitKeys == {<<1, 11>>}

\* the fold ids of the newest instance whose view was never called
FreshFolds ==
    IF instances = <<>> THEN {}
    ELSE {f \in Range(fold_ids(app)) : <<Len(instances), f>> \notin DOMAIN first}

\* the instances of these runs are constructed with auto_display=False: display() calls
\* the average view only, whose cache is not the one of the fold views
InitCache == InitCall(CacheInput(1), NoneValue, FALSE)

\* the caller prepares the construction of one more instance, once every fold view of
\* the newest one has been called
NextCall ==
    /\ pc = "done"
    /\ Len(instances) < MaxApps
    /\ FreshFolds = {}
    /\ pc' = "call"
    /\ models_metrics' = CacheInput(Len(instances) + 1)
    /\ given_metrics' = CacheInput(Len(instances) + 1)
    /\ UNCHANGED <<models_metadata, given_metadata, raised, raised_by, instances,
                   auto_display>>
    /\ UNCHANGED <<view_vars, ui_vars>>

\* the first call of the next fold view of the newest instance
FreshFold ==
    \E f \in FreshFolds :
        /\ \A g \in FreshFolds : f <= g
        /\ MakeChartDataFold(Len(instances), f)

\* one more call of a fold view that was called before
Revisit ==
    \E key \in RevisitKeys :
        /\ key \in DOMAIN first
        /\ MakeChartDataFold(key[1], key[2])

NextCache ==
    \/ Construct
    \/ NextCall
    \/ FreshFold
    \/ Revisit
    \/ MakeChartDataAvg(1)

SpecCache == InitCache /\ [][NextCache]_vars

\* the result is the rows of the instance's merged dataset with that fold id, in order
IsFoldView(view, data, fold_number) ==
    /\ \A p \in 1..Len(view.rows) : view.rows[p][Columns_Split] = fold_number
    /\ Len(view.rows)
         = Cardinality({i \in 1..Len(data.rows) : data.rows[i][Columns_Split] = fold_number})
    /\ \A p \in 1..Len(view.rows) : \E i \in 1..Len(data.rows) :
         /\ view.rows[p] = data.rows[i]
         /\ p = Cardinality({k \in 1..i : data.rows[k][Columns_Split] = fold_number})

\* C7 (the claim): a call of the fold view with an (instance, fold id) that was called
\* before returns the result of the first call, from the cache, without computing it.
C7_AlwaysFromCache ==
    (call.fn = "fold" /\ call.again)
    => /\ call.result = first[call.key]
       /\ IsFoldView(call.result, instances[call.key[1]].data, call.key[2])
       /\ call.hit

\* C7 (amended): such a call returns the result of the first call, the rows of the
\* instance's merged dataset with that fold id; it is served from the cache, without
\* computing it, when fewer than lru_cache_maxsize distinct other (instance, fold id)
\* keys, of whatever instances, were called since the last call with that key.
C7_FromCacheWhileRecent ==
    (call.fn = "fold" /\ call.again)
    => /\ call.result = first[call.key]
       /\ IsFoldView(call.result, instances[call.key[1]].data, call.key[2])
       /\ call.others < lru_cache_maxsize => call.hit

\* a fold view called again after the views of lru_cache_maxsize - 1 other keys, of other
\* instances, and served from the cache
C7_Witness ==
    /\ call.fn = "fold"
    /\ call.again
    /\ call.hit
    /\ call.others = lru_cache_maxsize - 1
    /\ Len(instances) > 2

----------------------------------------------------------------------------
(* display() and the control-change events *)

\* at most MaxModels models in the displayed runs
MaxModels == 2

\* display() is called at most MaxDisplays times
MaxDisplays == 2

\* at most MaxEvents control-change events are handled
MaxEvents == 4

UINames == <<<<"b">>, <<"a">>, <<"c">>, <<"d">>>>
UIMetaValues == {<<"x">>, <<"y">>, <<"x", " ", "y">>}
UIMetaColumns ==
    {<<Columns_Model, "factors">>, <<Columns_Model, "factors", "regularization">>,
     <<Columns_Model, "prec@10">>}
UIMetricsColumns ==
    {<<Columns_Model, Columns_Split, "prec@10", "recall@10">>, <<Columns_Model, "prec@10">>}

\* the metrics table of the models names over the columns cols: one row per model and
\* fold (the folds 1 and 11) when cols has a fold column, one row per model otherwise
UIMetrics(cols, names) ==
    LET folds == IF Columns_Split \in Range(cols) THEN <<1, 11>> ELSE <<1>>
        n == Len(names)
    IN  DataFrame(cols,
                  [r \in 1..(n * Len(folds)) |->
                      [c \in Range(cols) |->
                          CASE c = Columns_Model -> names[((r - 1) % n) + 1]
                            [] c = Columns_Split -> folds[((r - 1) \div n) + 1]
                            [] c = "prec@10" -> <<r>>
                            [] OTHER -> <<1>>]])

\* the metadata table of the first m models over the columns cols, the model number k
\* having the value values[k] of "factors"
UIMetadata(cols, names, m, values) ==
    DataFrame(cols,
              [r \in 1..m |->
                  [c \in Range(cols) |->
                      CASE c = Columns_Model -> names[r]
                        [] c = "factors" -> <<values[r]>>
                        [] OTHER -> <<<<"x">>>>]])

InitUI ==
    \E cols \in UIMetricsColumns : \E n \in 1..MaxModels :
        LET names == SubSeq(UINames, 1, n)
        IN  \/ \E auto \in BOOLEAN : InitCall(UIMetrics(cols, names), NoneValue, auto)
            \/ \E dcols \in UIMetaColumns : \E m \in 1..n : \E values \in [1..n -> UIMetaValues] :
                  \E auto \in BOOLEAN :
                      InitCall(UIMetrics(cols, names), UIMetadata(dcols, names, m, values), auto)

\* MetricsApp.display() of the instance construct returned, called by the user, be it
\* displayed already or not: new controls and a new live chart are made and self.fig is
\* the initial chart again; the controls of the earlier calls stay observed, and their
\* events go on updating the same self.fig and their own live chart; an exception of
\* display() reaches the caller
Display ==
    /\ pc = "done"
    /\ instances # <<>>
    /\ Len(widgets) < MaxDisplays
    /\ display(app, Len(instances))
    /\ raised' = display_raised(app)
    /\ raised_by' = IF display_raised(app) = "None" THEN "" ELSE "display"
    /\ UNCHANGED <<pc, models_metrics, models_metadata, given_metrics, given_metadata,
                   instances, auto_display>>

\* update(event) of the controls of the d-th display() once _update_chart has left run:
\* the two visibilities are updated unless it raised
Updated(d, w, run) ==
    /\ Ran(run)
    /\ fig_widget' = [fig_widget EXCEPT ![d] = run.fig_widget]
    /\ widgets' = [widgets EXCEPT
                     ![d] = IF run.ended.error = "None" THEN update_visibility(w) ELSE w]

\* update(event) of the controls of the d-th display(), their values being w
Update(d, w) ==
    /\ events < MaxEvents
    /\ events' = events + 1
    /\ Updated(d, w, update_chart(app, Len(instances), w, fig, fig_widget[d],
                                  fold_cache, avg_cache))
    /\ UNCHANGED <<call_vars, initial_symbols>>

\* the user picks another metric of the x axis
SetMetricX ==
    \E d \in 1..Len(widgets) :
        \E v \in Range(app.metric_names) \ {widgets[d].metric_x} :
            Update(d, [widgets[d] EXCEPT !.metric_x = v])

\* the user picks another metric of the y axis
SetMetricY ==
    \E d \in 1..Len(widgets) :
        \E v \in Range(app.metric_names) \ {widgets[d].metric_y} :
            Update(d, [widgets[d] EXCEPT !.metric_y = v])

\* the user toggles "Average folds"
SetUseAvg ==
    \E d \in 1..Len(widgets) :
        /\ FoldControlsShown(app)
        /\ Update(d, [widgets[d] EXCEPT !.use_avg = ~ @])

\* the user picks another fold
SetFold ==
    \E d \in 1..Len(widgets) :
        /\ FoldControlsShown(app)
        /\ widgets[d].fold_visibility = "visible"
        /\ \E v \in Range(fold_ids(app)) \ {widgets[d].fold_i} :
              Update(d, [widgets[d] EXCEPT !.fold_i = v])

\* the user toggles "Use metadata"
SetUseMeta ==
    \E d \in 1..Len(widgets) :
        /\ MetaControlsShown(app)
        /\ Update(d, [widgets[d] EXCEPT !.use_meta = ~ @])

\* the user picks another metadata column to colour by
SetMetaFeature ==
    \E d \in 1..Len(widgets) :
        /\ MetaControlsShown(app)
        /\ widgets[d].meta_visibility = "visible"
        /\ \E v \in Range(app.meta_names) \ {widgets[d].meta_feature} :
              Update(d, [widgets[d] EXCEPT !.meta_feature = v])

NextUI ==
    \/ Construct
    \/ Display
    \/ SetMetricX
    \/ SetMetricY
    \/ SetUseAvg
    \/ SetFold
    \/ SetUseMeta
    \/ SetMetaFeature

SpecUI == InitUI /\ [][NextUI]_vars

\* the model a series belongs to: its name after the last space (no model name of the
\* merged dataset has a space)
RECURSIVE ModelOfTrace(_)
ModelOfTrace(name) == IF HasSpace(name) THEN ModelOfTrace(AfterFirstSpace(name)) ELSE name

\* the symbols of the series are those of the initial chart
InitialSymbols(traces) ==
    \A k \in 1..Len(traces) :
        /\ ModelOfTrace(traces[k].name) \in DOMAIN initial_symbols
        /\ traces[k].symbol = initial_symbols[ModelOfTrace(traces[k].name)]

\* exactly one series per model of the merged dataset
OneSeriesPerModel(traces) ==
    /\ {ModelOfTrace(traces[k].name) : k \in 1..Len(traces)} = Range(Column(app.data, Columns_Model))
    /\ \A j, k \in 1..Len(traces) :
          ModelOfTrace(traces[j].name) = ModelOfTrace(traces[k].name) => j = k

\* C8: every run of the update procedure, in display() and after every change of a
\* displayed control, completes without an exception: no fold view of data without a
\* fold column, the colour column exists, and the look-ups of the series' name keys in
\* the name-to-symbol and name-to-index maps succeed.
C8_UpdatesComplete == updated.error = "None"

\* C9: once display() has returned and after every control-change event, the fold
\* selector is hidden exactly when "Average folds" is checked and the metadata selector
\* is hidden exactly when "Use metadata" is unchecked.
C9_SelectorsFollowCheckboxes ==
    \A d \in 1..Len(widgets) :
        /\ (widgets[d].fold_visibility = "hidden") <=> widgets[d].use_avg
        /\ (widgets[d].meta_visibility = "hidden") <=> ~ widgets[d].use_meta

\* C10: after any sequence of control changes the series of each model has, in self.fig
\* and in the live chart, the symbol it had in the initial chart of display(), and the
\* live chart has exactly one series per model.
C10_SymbolsPreserved ==
    /\ widgets # <<>> => InitialSymbols(fig.data)
    /\ \A d \in 1..Len(fig_widget) :
          /\ InitialSymbols(fig_widget[d].data)
          /\ OneSeriesPerModel(fig_widget[d].data)

----------------------------------------------------------------------------
(* The validators on tables that satisfy the data model *)

\* at most MaxValidRows rows in the tables of these runs
MaxValidRows == 4

ValidNames == {<<"a">>, <<"a", "1">>, <<"a", " ", "b">>}
ValidMetricsColumns ==
    {<<Columns_Model, Columns_Split, "prec@10">>, <<Columns_Model, "prec@10">>}

InitValid ==
    \E cols \in ValidMetricsColumns : \E k \in 0..MaxValidRows :
        \E rows \in [1..k -> RowsOver(cols, ValidNames, FoldIds, {<<1>>})] :
            \E auto \in BOOLEAN : InitCall(DataFrame(cols, rows), NoneValue, auto)

SpecValid == InitValid /\ [][Next]_vars

\* two rows with the same (space-normalized model name, fold id), or the same
\* space-normalized model name when there is no fold column
HasDuplicateNormalizedKey(df) ==
    \E i, j \in 1..Len(df.rows) :
        /\ i < j
        /\ str_replace(df.rows[i][Columns_Model], " ", "_")
             = str_replace(df.rows[j][Columns_Model], " ", "_")
        /\ HasColumn(df, Columns_Split) => df.rows[i][Columns_Split] = df.rows[j][Columns_Split]

\* the data-model invariants of a metrics table
SatisfiesDataModel(df) ==
    /\ IsDataFrame(df)
    /\ HasColumn(df, Columns_Model)
    /\ HasMetricColumn(df)
    /\ ~ AnyNull(df)
    /\ HasColumn(df, Columns_Split) => SameFoldSets(df)
    /\ ~ HasDuplicateNormalizedKey(df)

\* C11: no validation step of the metrics table raises for a table (here one with at
\* least one row) that satisfies the data-model invariants: a model column, a metric
\* column, no missing value, the same fold ids for every model and pairwise distinct
\* (space-normalized model name, fold id) pairs.
C11_ValidTablesAccepted ==
    (/\ pc = "done"
     /\ SatisfiesDataModel(given_metrics)
     /\ given_metrics.rows # <<>>)
    => raised_by \notin {"base", "split", "names"}

============================================================================
